---- MODULE Spec2Model ----
(***************************************************************************)
(* A model of the recursive-descent parser of src/parser.rs: the token     *)
(* stream (a Peekable iterator over a Vec<Token>), the statement and       *)
(* expression productions, the for-loop desugaring, the arity limit and     *)
(* the prefix-form AST printer print_ast.                                   *)
(*                                                                         *)
(* Texts (lexemes, identifier names, string values, printer output) are    *)
(* sequences of one-character strings.  A number literal's f64 value is    *)
(* kept as a natural number of hundredths (12300 is 123.0, 4567 is 45.67). *)
(***************************************************************************)
EXTENDS Naturals, Sequences, FiniteSets, TLC

VARIABLES
    tokens,     \* the Vec<Token> handed to Parser::new
    next_index, \* the counter behind next_universal_index()
    pc,         \* position of the driver: "new", "parsing", "parsed", "synchronized",
                \* "printed", "lexed", "reparsed"
    result,     \* what the parser returned (Result<_, Error>)
    printed,    \* what print_ast wrote for the parsed expression
    relexed,    \* the tokens of the printed text
    reparsed    \* the parser's result on the tokens of the printed text

vars == <<tokens, next_index, pc, result, printed, relexed, reparsed>>

---------------------------------------------------------------------------
(* Option<T>: None is the empty sequence, Some(x) the one-element sequence. *)

None == << >>

Some(x) == <<x>>

IsSome(o) == o # << >>

Unwrap(o) == o[1]

---------------------------------------------------------------------------
(* Tokens. *)

\* struct Token { token_type, lexeme, line, universal_index }; the payload of
\* Identifier(text) / String(value) is `text`, that of Number(value) is `number`.
Token(tt, text, number, lexeme, line, index) ==
    [token_type |-> tt, text |-> text, number |-> number,
     lexeme |-> lexeme, line |-> line, universal_index |-> index]

\* The parser's own state: the remaining tokens of the Peekable iterator and
\* the process-wide counter behind next_universal_index().
ParserState(ts, idx) == [tokens |-> ts, next_index |-> idx]

\* self.tokens.peek()
peek(p) == IF p.tokens = << >> THEN None ELSE Some(Head(p.tokens))

\* the iterator after self.tokens.next(); a drained iterator stays drained
advance(p) == IF p.tokens = << >> THEN p ELSE [p EXCEPT !.tokens = Tail(p.tokens)]

\* matches!(self.tokens.peek(), Some(Token { token_type: <one of types>, .. }))
peek_is(p, types) == p.tokens # << >> /\ Head(p.tokens).token_type \in types

\* next_universal_index(): a value never handed out before, then the counter moves on
next_universal_index(p) == p.next_index

bump_index(p) == [p EXCEPT !.next_index = p.next_index + 1]

\* Result<T, Error>
Ok(v, p) == [ok |-> TRUE, val |-> v, p |-> p]

Err(kind, token, p) == [ok |-> FALSE, err |-> [kind |-> kind, token |-> token], p |-> p]

\* ErrorKind::ExpectedIdentifier { place }
ExpectedIdentifier(place) == <<"ExpectedIdentifier", place>>

\* the fieldless ErrorKind variants
Kind(name) == <<name>>

\* expect_token_type!(parser, pattern): Ok(token) or Err(Option<Token>)
expect_token_type(p, types) ==
    IF peek_is(p, types)
    THEN [ok |-> TRUE, token |-> Head(p.tokens), rest |-> None, p |-> advance(p)]
    ELSE [ok |-> FALSE, token |-> None, rest |-> peek(p), p |-> advance(p)]


---------------------------------------------------------------------------
(* Expressions.                                                            *)
(*                                                                         *)
(* Where the code binds the result of a sub-parse (`let e = self.x()?`),   *)
(* the model hands that result to a local operator as its parameter.       *)

LiteralTypes == {"Number", "String", "True", "False", "Nil"}

RECURSIVE assignment(_)
RECURSIVE binary(_, _)
RECURSIVE binary_loop(_, _, _)
RECURSIVE unary(_)
RECURSIVE call_loop(_, _)
RECURSIVE finish_call_turns(_, _)
RECURSIVE primary(_)

\* the number of arguments / parameters at which the loops give up
ArgumentsLimit == 255

expression(p) == assignment(p)

primary(p) ==
    IF p.tokens = << >> THEN Err(Kind("ExpectedExpression"), None, p)
    ELSE
    LET token == Head(p.tokens)
        q == advance(p)
        with_method(method) ==
            IF ~method.ok THEN Err(ExpectedIdentifier("super"), method.rest, method.p)
            ELSE Ok([kind |-> "Super", keyword |-> token, method |-> method.token], method.p)
        with_dot(dot) ==
            IF ~dot.ok THEN Err(Kind("ExpectedDot"), dot.rest, dot.p)
            ELSE with_method(expect_token_type(dot.p, {"Identifier"}))
        with_expr(e) ==
            IF ~e.ok THEN e
            ELSE IF peek_is(e.p, {"RightParen"})
            THEN Ok([kind |-> "Grouping", expr |-> e.val], advance(e.p))
            ELSE Err(Kind("ExpectedRightParenthesis"), peek(e.p), advance(e.p))
    IN  CASE token.token_type = "Identifier" ->
                Ok([kind |-> "Variable", token |-> token], q)
          [] token.token_type \in LiteralTypes ->
                Ok([kind |-> "Literal", token |-> token], q)
          [] token.token_type = "This" ->
                Ok([kind |-> "This", keyword |-> token], q)
          [] token.token_type = "Super" -> with_dot(expect_token_type(q, {"Dot"}))
          [] token.token_type = "LeftParen" -> with_expr(expression(q))
          [] OTHER -> Err(Kind("ExpectedExpression"), Some(token), q)

\* A loop whose trip count can reach ArgumentsLimit is kept as its body, a step
\* on the loop's state, and run by repeated application: `done` says the loop
\* was left (by break or return) with result `r`; `acc` is the vector being
\* filled and `p` the parser.
Running(acc, p) == [done |-> FALSE, r |-> None, acc |-> acc, p |-> p]

Left(r) == [done |-> TRUE, r |-> r, acc |-> << >>, p |-> r.p]

\* finish_call's loop giving up one argument too late
finish_call_step_late(s) ==
    IF s.done THEN s
    ELSE IF Len(s.acc) > ArgumentsLimit
    THEN Left(Err(Kind("ExceededArgumentsLimit"), peek(s.p), s.p))
    ELSE
    LET with_argument(e) ==
            IF ~e.ok THEN Left(e)
            ELSE IF peek_is(e.p, {"Comma"})
            THEN Running(Append(s.acc, e.val), advance(e.p))
            ELSE Left(Ok(Append(s.acc, e.val), e.p))
    IN  with_argument(expression(s.p))

\* one turn of the loop of finish_call
finish_call_step(s) ==
    IF s.done THEN s
    ELSE IF Len(s.acc) >= ArgumentsLimit
    THEN Left(Err(Kind("ExceededArgumentsLimit"), peek(s.p), s.p))
    ELSE
    LET with_argument(e) ==
            IF ~e.ok THEN Left(e)
            ELSE IF peek_is(e.p, {"Comma"})
            THEN Running(Append(s.acc, e.val), advance(e.p))
            ELSE Left(Ok(Append(s.acc, e.val), e.p))
    IN  with_argument(expression(s.p))

\* n turns of the loop of finish_call
finish_call_turns(s, n) ==
    IF n = 0 THEN s
    ELSE IF n = 1 THEN finish_call_step(s)
    ELSE LET rest(half) ==
                IF half.done THEN half ELSE finish_call_turns(half, n - (n \div 2))
         IN  rest(finish_call_turns(s, n \div 2))

\* the loop of finish_call: every turn that stays in the loop consumes a token
finish_call_loop(arguments, p) ==
    finish_call_turns(Running(arguments, p), Len(p.tokens) + 1).r

finish_call(callee, p) ==
    LET with_paren(args, closing_parenthesis) ==
            IF ~closing_parenthesis.ok
            THEN Err(Kind("ExpectedRightParenthesis"), closing_parenthesis.rest,
                     closing_parenthesis.p)
            ELSE Ok([kind |-> "Call", callee |-> callee,
                     closing_parenthesis |-> closing_parenthesis.token,
                     arguments |-> args.val], closing_parenthesis.p)
        with_arguments(args) ==
            IF ~args.ok THEN args
            ELSE with_paren(args, expect_token_type(args.p, {"RightParen"}))
    IN  with_arguments(IF peek_is(p, {"RightParen"}) THEN Ok(<< >>, p)
                       ELSE finish_call_loop(<< >>, p))

call_loop(expr, p) ==
    LET with_call(c) == IF ~c.ok THEN c ELSE call_loop(c.val, c.p)
        with_name(name) ==
            IF ~name.ok THEN Err(ExpectedIdentifier("property name"), name.rest, name.p)
            ELSE call_loop([kind |-> "Get", object |-> expr, name |-> name.token], name.p)
    IN  IF peek_is(p, {"LeftParen"}) THEN with_call(finish_call(expr, advance(p)))
        ELSE IF peek_is(p, {"Dot"})
        THEN with_name(expect_token_type(advance(p), {"Identifier"}))
        ELSE Ok(expr, p)

call(p) ==
    LET with_primary(e) == IF ~e.ok THEN e ELSE call_loop(e.val, e.p)
    IN  with_primary(primary(p))

unary(p) ==
    IF p.tokens = << >> THEN Err(Kind("ExpectedExpression"), None, p)
    ELSE IF peek_is(p, {"Bang", "Minus"}) THEN
        LET token == Head(p.tokens)
            with_operand(e) ==
                IF ~e.ok THEN e
                ELSE Ok([kind |-> "Unary", operator |-> token, expr |-> e.val], e.p)
        IN  with_operand(unary(advance(p)))
    ELSE call(p)

\* The binary levels of the precedence tower, lowest first.  or(), and(),
\* equality(), comparison(), term() and factor() are the same function up to the
\* operators they loop on and the node they build; each parses its operands with
\* the next one, factor() with unary().
Levels ==
    << [name |-> "or", operators |-> {"Or"}, node |-> "Logical"],
       [name |-> "and", operators |-> {"And"}, node |-> "Logical"],
       [name |-> "equality", operators |-> {"BangEqual", "EqualEqual"}, node |-> "Binary"],
       [name |-> "comparison",
        operators |-> {"Greater", "GreaterEqual", "Less", "LessEqual"}, node |-> "Binary"],
       [name |-> "term", operators |-> {"Minus", "Plus"}, node |-> "Binary"],
       [name |-> "factor", operators |-> {"Slash", "Star"}, node |-> "Binary"] >>

\* the call that parses an operand of level n
operand_of(n, p) == IF n = Len(Levels) THEN unary(p) ELSE binary(n + 1, p)

\* a level whose right operand is parsed at the same level, not the next
binary_loop_same_level(n, expr, p) ==
    IF peek_is(p, Levels[n].operators) THEN
        LET operator == Head(p.tokens)
            with_right(right) ==
                IF ~right.ok THEN right
                ELSE Ok([kind |-> Levels[n].node, left |-> expr, operator |-> operator,
                         right |-> right.val], right.p)
        IN  with_right(binary(n, advance(p)))
    ELSE Ok(expr, p)

\* the loop of level n: `expr` is the tree built so far
binary_loop(n, expr, p) ==
    IF peek_is(p, Levels[n].operators) THEN
        LET operator == Head(p.tokens)
            with_right(right) ==
                IF ~right.ok THEN right
                ELSE binary_loop(n, [kind |-> Levels[n].node, left |-> expr,
                                     operator |-> operator, right |-> right.val], right.p)
        IN  with_right(operand_of(n, advance(p)))
    ELSE Ok(expr, p)

\* level n of the tower
binary(n, p) ==
    LET with_left(e) == IF ~e.ok THEN e ELSE binary_loop(n, e.val, e.p)
    IN  with_left(operand_of(n, p))

factor(p) == binary(6, p)

term(p) == binary(5, p)

comparison(p) == binary(4, p)

equality(p) == binary(3, p)

and(p) == binary(2, p)

or(p) == binary(1, p)

\* an invalid target reported without its `=`
assign_to_unreported(expr, equals, value) ==
    IF ~value.ok THEN value
    ELSE IF expr.kind = "Variable"
    THEN Ok([kind |-> "Assign", name |-> expr.token, value |-> value.val], value.p)
    ELSE IF expr.kind = "Get"
    THEN Ok([kind |-> "Set", object |-> expr.object, name |-> expr.name,
             value |-> value.val], value.p)
    ELSE Err(Kind("InvalidAssignmentTarget"), None, value.p)

\* the arm of assignment() taken when `=` follows: `expr` is the left side,
\* `equals` the consumed `=` and `value` the result of the recursive call
assign_to(expr, equals, value) ==
    IF ~value.ok THEN value
    ELSE IF expr.kind = "Variable"
    THEN Ok([kind |-> "Assign", name |-> expr.token, value |-> value.val], value.p)
    ELSE IF expr.kind = "Get"
    THEN Ok([kind |-> "Set", object |-> expr.object, name |-> expr.name,
             value |-> value.val], value.p)
    ELSE Err(Kind("InvalidAssignmentTarget"), equals, value.p)

assignment(p) ==
    LET with_left(expr) ==
            IF ~expr.ok THEN expr
            ELSE IF peek_is(expr.p, {"Equal"})
            THEN assign_to(expr.val, peek(expr.p), assignment(advance(expr.p)))
            ELSE expr
    IN  with_left(or(p))

---------------------------------------------------------------------------
(* Statements. *)

RECURSIVE declaration(_)
RECURSIVE statement(_)
RECURSIVE block_loop(_, _)
RECURSIVE params_turns(_, _)
RECURSIVE methods_loop(_, _)

var_declaration(p) ==
    IF ~peek_is(p, {"Identifier"})
    THEN Err(ExpectedIdentifier("variable"), peek(p), advance(p))
    ELSE
    LET name == Head(p.tokens)
        q == advance(p)
        with_initializer(initializer) ==
            IF ~initializer.ok THEN initializer
            ELSE IF peek_is(initializer.p, {"Semicolon"})
            THEN Ok([kind |-> "Var", name |-> name, initializer |-> Some(initializer.val)],
                    advance(initializer.p))
            ELSE Err(Kind("ExpectedSemicolon"), peek(initializer.p),
                     advance(initializer.p))
    IN
    IF peek_is(q, {"Equal"}) THEN with_initializer(expression(advance(q)))
    ELSE IF peek_is(q, {"Semicolon"})
    THEN Ok([kind |-> "Var", name |-> name, initializer |-> None], advance(q))
    ELSE Err(Kind("ExpectedSemicolon"), peek(q), advance(q))

\* block(): the statements up to the closing brace, as Result<Vec<Stmt>, Error>
block_loop(statements, p) ==
    IF peek_is(p, {"RightBrace"}) \/ p.tokens = << >>
    THEN IF peek_is(p, {"RightBrace"})
         THEN Ok(statements, advance(p))
         ELSE Err(Kind("ExpectedRightBrace"), peek(p), advance(p))
    ELSE
    LET with_statement(s) ==
            IF ~s.ok THEN s ELSE block_loop(Append(statements, s.val), s.p)
    IN  with_statement(declaration(p))

block(p) == block_loop(<< >>, p)

\* one turn of the parameter loop of function()
params_step(s) ==
    IF s.done THEN s
    ELSE IF Len(s.acc) >= ArgumentsLimit
    THEN Left(Err(Kind("ExceededArgumentsLimit"),
                  IF s.acc = << >> THEN None ELSE Some(s.acc[Len(s.acc)]), s.p))
    ELSE IF peek_is(s.p, {"RightParen"}) THEN Left(Ok(s.acc, advance(s.p)))
    ELSE IF peek_is(s.p, {"Identifier"}) THEN
        LET token == Head(s.p.tokens)
            q == advance(s.p)
        IN  IF peek_is(q, {"Comma"}) THEN Running(Append(s.acc, token), advance(q))
            ELSE IF peek_is(q, {"RightParen"})
            THEN Left(Ok(Append(s.acc, token), advance(q)))
            ELSE Left(Err(Kind("ExpectedComma"), peek(q), advance(q)))
    ELSE Left(Err(ExpectedIdentifier("parameter"), peek(s.p), advance(s.p)))

\* n turns of the parameter loop
params_turns(s, n) ==
    IF n = 0 THEN s
    ELSE IF n = 1 THEN params_step(s)
    ELSE LET rest(half) ==
                IF half.done THEN half ELSE params_turns(half, n - (n \div 2))
         IN  rest(params_turns(s, n \div 2))

\* the parameter loop of function(): every turn consumes a token or leaves
params_loop(params, p) == params_turns(Running(params, p), Len(p.tokens) + 1).r

function(place, p) ==
    LET with_body(name, params, body) ==
            IF ~body.ok THEN body
            ELSE Ok([kind |-> "Function", name |-> name.token, params |-> params.val,
                     body |-> body.val], body.p)
        with_brace(name, params, brace) ==
            IF ~brace.ok THEN Err(Kind("ExpectedLeftBrace"), brace.rest, brace.p)
            ELSE with_body(name, params, block(brace.p))
        with_params(name, params) ==
            IF ~params.ok THEN params
            ELSE with_brace(name, params, expect_token_type(params.p, {"LeftBrace"}))
        with_paren(name, paren) ==
            IF ~paren.ok THEN Err(Kind("ExpectedLeftParenthesis"), paren.rest, paren.p)
            ELSE with_params(name, params_loop(<< >>, paren.p))
        with_name(name) ==
            IF ~name.ok THEN Err(ExpectedIdentifier(place), name.rest, name.p)
            ELSE with_paren(name, expect_token_type(name.p, {"LeftParen"}))
    IN  with_name(expect_token_type(p, {"Identifier"}))

\* the method loop of class_declaration
methods_loop(methods, p) ==
    IF peek_is(p, {"RightBrace", "Eof"}) \/ p.tokens = << >> THEN Ok(methods, p)
    ELSE
    LET with_method(method) ==
            IF ~method.ok THEN method
            ELSE methods_loop(Append(methods, method.val), method.p)
    IN  with_method(function("method", p))

class_declaration(p) ==
    LET with_close(name, superclass, methods, close) ==
            IF ~close.ok THEN Err(Kind("ExpectedRightBrace"), close.rest, close.p)
            ELSE Ok([kind |-> "Class", name |-> name.token, superclass |-> superclass.val,
                     methods |-> methods.val], close.p)
        with_methods(name, superclass, methods) ==
            IF ~methods.ok THEN methods
            ELSE with_close(name, superclass, methods,
                            expect_token_type(methods.p, {"RightBrace"}))
        with_open(name, superclass, open) ==
            IF ~open.ok THEN Err(Kind("ExpectedLeftBrace"), open.rest, open.p)
            ELSE with_methods(name, superclass, methods_loop(<< >>, open.p))
        with_superclass(name, superclass) ==
            IF ~superclass.ok THEN superclass
            ELSE with_open(name, superclass,
                           expect_token_type(superclass.p, {"LeftBrace"}))
        with_super_name(s) ==
            IF ~s.ok THEN Err(ExpectedIdentifier("superclass"), s.rest, s.p)
            ELSE Ok(Some(s.token), s.p)
        with_name(name) ==
            IF ~name.ok THEN Err(ExpectedIdentifier("class"), name.rest, name.p)
            ELSE with_superclass(name,
                    IF peek_is(name.p, {"Less"})
                    THEN with_super_name(expect_token_type(advance(name.p), {"Identifier"}))
                    ELSE Ok(None, name.p))
    IN  with_name(expect_token_type(p, {"Identifier"}))

if_statement(p) ==
    LET with_else(condition, then_branch, else_branch) ==
            IF ~else_branch.ok THEN else_branch
            ELSE Ok([kind |-> "If", condition |-> condition.val,
                     then_branch |-> then_branch.val,
                     else_branch |-> Some(else_branch.val)], else_branch.p)
        with_then(condition, then_branch) ==
            IF ~then_branch.ok THEN then_branch
            ELSE IF peek_is(then_branch.p, {"Else"})
            THEN with_else(condition, then_branch, statement(advance(then_branch.p)))
            ELSE Ok([kind |-> "If", condition |-> condition.val,
                     then_branch |-> then_branch.val, else_branch |-> None],
                    then_branch.p)
        with_close(condition, close) ==
            IF ~close.ok THEN Err(Kind("ExpectedRightParenthesis"), close.rest, close.p)
            ELSE with_then(condition, statement(close.p))
        with_condition(condition) ==
            IF ~condition.ok THEN condition
            ELSE with_close(condition, expect_token_type(condition.p, {"RightParen"}))
        with_open(open) ==
            IF ~open.ok THEN Err(Kind("ExpectedLeftParenthesis"), open.rest, open.p)
            ELSE with_condition(expression(open.p))
    IN  with_open(expect_token_type(p, {"LeftParen"}))

print_statement(p) ==
    LET with_value(value) ==
            IF ~value.ok THEN value
            ELSE IF peek_is(value.p, {"Semicolon"})
            THEN Ok([kind |-> "Print", expr |-> value.val], advance(value.p))
            ELSE Err(Kind("ExpectedSemicolon"), None, advance(value.p))
    IN  with_value(expression(p))

while_statement(p) ==
    LET with_body(condition, body) ==
            IF ~body.ok THEN body
            ELSE Ok([kind |-> "While", condition |-> condition.val, body |-> body.val],
                    body.p)
        with_close(condition, close) ==
            IF ~close.ok THEN Err(Kind("ExpectedRightParenthesis"), close.rest, close.p)
            ELSE with_body(condition, statement(close.p))
        with_condition(condition) ==
            IF ~condition.ok THEN condition
            ELSE with_close(condition, expect_token_type(condition.p, {"RightParen"}))
        with_open(open) ==
            IF ~open.ok THEN Err(Kind("ExpectedLeftParenthesis"), open.rest, open.p)
            ELSE with_condition(expression(open.p))
    IN  with_open(expect_token_type(p, {"LeftParen"}))

expression_statement(p) ==
    LET with_expr(expr) ==
            IF ~expr.ok THEN expr
            ELSE IF peek_is(expr.p, {"Semicolon"})
            THEN Ok([kind |-> "Expr", expr |-> expr.val], advance(expr.p))
            ELSE Err(Kind("ExpectedSemicolon"), None, advance(expr.p))
    IN  with_expr(expression(p))

\* a clause of the for header that may be missing: Ok(None) or Ok(Some(parsed))
optional(r) == IF ~r.ok THEN r ELSE Ok(Some(r.val), r.p)

\* a desugaring that runs the increment before the body
for_desugar_increment_first(initializer, condition, increment, body, p) ==
    LET body1 == IF IsSome(increment)
                 THEN [kind |-> "Block",
                       stmts |-> <<[kind |-> "Expr", expr |-> Unwrap(increment)], body>>]
                 ELSE body
        p1 == IF IsSome(condition) THEN p ELSE bump_index(p)
        condition1 ==
            IF IsSome(condition) THEN Unwrap(condition)
            ELSE [kind |-> "Literal",
                  token |-> Token("True", << >>, 0, << >>, 1, next_universal_index(p))]
    IN  IF IsSome(initializer)
        THEN Ok([kind |-> "Block",
                 stmts |-> <<Unwrap(initializer),
                             [kind |-> "While", condition |-> condition1,
                              body |-> body1]>>], p1)
        ELSE Ok(body1, p1)

\* the desugaring at the end of for_statement, once the three clauses and the
\* body are parsed; initializer, condition and increment are Options
for_desugar(initializer, condition, increment, body, p) ==
    LET body1 == IF IsSome(increment)
                 THEN [kind |-> "Block",
                       stmts |-> <<body, [kind |-> "Expr", expr |-> Unwrap(increment)]>>]
                 ELSE body
        p1 == IF IsSome(condition) THEN p ELSE bump_index(p)
        condition1 ==
            IF IsSome(condition) THEN Unwrap(condition)
            ELSE [kind |-> "Literal",
                  token |-> Token("True", << >>, 0, << >>, 1, next_universal_index(p))]
    IN  IF IsSome(initializer)
        THEN Ok([kind |-> "Block",
                 stmts |-> <<Unwrap(initializer),
                             [kind |-> "While", condition |-> condition1,
                              body |-> body1]>>], p1)
        ELSE Ok(body1, p1)

for_statement(p) ==
    LET with_body(initializer, condition, increment, body) ==
            IF ~body.ok THEN body
            ELSE for_desugar(initializer.val, condition.val, increment.val, body.val,
                             body.p)
        with_close(initializer, condition, increment, close) ==
            IF ~close.ok THEN Err(Kind("ExpectedRightParenthesis"), close.rest, close.p)
            ELSE with_body(initializer, condition, increment, statement(close.p))
        with_increment(initializer, condition, increment) ==
            IF ~increment.ok THEN increment
            ELSE with_close(initializer, condition, increment,
                            expect_token_type(increment.p, {"RightParen"}))
        with_semi(initializer, condition, semi) ==
            IF ~semi.ok THEN Err(Kind("ExpectedSemicolon"), semi.rest, semi.p)
            ELSE with_increment(initializer, condition,
                    IF peek_is(semi.p, {"RightParen"}) THEN Ok(None, semi.p)
                    ELSE optional(expression(semi.p)))
        with_condition(initializer, condition) ==
            IF ~condition.ok THEN condition
            ELSE with_semi(initializer, condition,
                           expect_token_type(condition.p, {"Semicolon"}))
        with_initializer(initializer) ==
            IF ~initializer.ok THEN initializer
            ELSE with_condition(initializer,
                    IF peek_is(initializer.p, {"Semicolon"}) THEN Ok(None, initializer.p)
                    ELSE optional(expression(initializer.p)))
        with_open(open) ==
            IF ~open.ok THEN Err(Kind("ExpectedLeftParenthesis"), open.rest, open.p)
            ELSE with_initializer(
                    IF peek_is(open.p, {"Semicolon"}) THEN Ok(None, advance(open.p))
                    ELSE IF peek_is(open.p, {"Var"})
                    THEN optional(var_declaration(advance(open.p)))
                    ELSE optional(expression_statement(open.p)))
    IN  with_open(expect_token_type(p, {"LeftParen"}))

\* a bare return whose nil sits on line 1, like the `true` of a for
return_statement_line_one(keyword, p) ==
    LET with_semi(value, semi) ==
            IF ~semi.ok THEN Err(Kind("ExpectedSemicolon"), semi.rest, semi.p)
            ELSE Ok([kind |-> "Return", keyword |-> keyword, value |-> value.val], semi.p)
        with_value(value) ==
            IF ~value.ok THEN value
            ELSE with_semi(value, expect_token_type(value.p, {"Semicolon"}))
    IN  with_value(IF peek_is(p, {"Semicolon"})
                   THEN Ok([kind |-> "Literal",
                            token |-> Token("Nil", << >>, 0, keyword.lexeme, 1,
                                            next_universal_index(p))],
                           bump_index(p))
                   ELSE expression(p))

\* a bare return whose nil is a copy of the keyword, universal index included
return_statement_cloned_index(keyword, p) ==
    LET with_semi(value, semi) ==
            IF ~semi.ok THEN Err(Kind("ExpectedSemicolon"), semi.rest, semi.p)
            ELSE Ok([kind |-> "Return", keyword |-> keyword, value |-> value.val], semi.p)
        with_value(value) ==
            IF ~value.ok THEN value
            ELSE with_semi(value, expect_token_type(value.p, {"Semicolon"}))
    IN  with_value(IF peek_is(p, {"Semicolon"})
                   THEN Ok([kind |-> "Literal",
                            token |-> Token("Nil", << >>, 0, keyword.lexeme, keyword.line,
                                            keyword.universal_index)],
                           p)
                   ELSE expression(p))

return_statement(keyword, p) ==
    LET with_semi(value, semi) ==
            IF ~semi.ok THEN Err(Kind("ExpectedSemicolon"), semi.rest, semi.p)
            ELSE Ok([kind |-> "Return", keyword |-> keyword, value |-> value.val], semi.p)
        with_value(value) ==
            IF ~value.ok THEN value
            ELSE with_semi(value, expect_token_type(value.p, {"Semicolon"}))
    IN  with_value(IF peek_is(p, {"Semicolon"})
                   THEN Ok([kind |-> "Literal",
                            token |-> Token("Nil", << >>, 0, keyword.lexeme, keyword.line,
                                            next_universal_index(p))],
                           bump_index(p))
                   ELSE expression(p))

\* self.block().map(Stmt::Block)
block_statement(b) == IF ~b.ok THEN b ELSE Ok([kind |-> "Block", stmts |-> b.val], b.p)

statement(p) ==
    CASE peek_is(p, {"If"}) -> if_statement(advance(p))
      [] peek_is(p, {"Print"}) -> print_statement(advance(p))
      [] peek_is(p, {"While"}) -> while_statement(advance(p))
      [] peek_is(p, {"For"}) -> for_statement(advance(p))
      [] peek_is(p, {"LeftBrace"}) -> block_statement(block(advance(p)))
      [] peek_is(p, {"Return"}) -> return_statement(Head(p.tokens), advance(p))
      [] OTHER -> expression_statement(p)

declaration(p) ==
    CASE peek_is(p, {"Fun"}) -> function("function", advance(p))
      [] peek_is(p, {"Var"}) -> var_declaration(advance(p))
      [] peek_is(p, {"Class"}) -> class_declaration(advance(p))
      [] OTHER -> statement(p)

RECURSIVE parse_loop(_, _)
\* a loop that drops a failed declaration and goes on with the next
parse_loop_resuming(statements, p) ==
    IF p.tokens = << >> \/ peek_is(p, {"Eof"}) THEN Ok(statements, p)
    ELSE
    LET with_declaration(d) ==
            IF ~d.ok THEN parse_loop(statements, d.p)
            ELSE parse_loop(Append(statements, d.val), d.p)
    IN  with_declaration(declaration(p))

\* the loop of Parser::parse, entered with the statements collected so far
parse_loop(statements, p) ==
    IF p.tokens = << >> \/ peek_is(p, {"Eof"}) THEN Ok(statements, p)
    ELSE
    LET with_declaration(d) ==
            IF ~d.ok THEN d ELSE parse_loop(Append(statements, d.val), d.p)
    IN  with_declaration(declaration(p))

\* Parser::new(tokens).parse(), with the counter of next_universal_index at idx
parse(ts, idx) == parse_loop(<< >>, ParserState(ts, idx))


\* the keywords a statement starts with
StatementStarts == {"Class", "For", "Fun", "If", "Print", "Return", "Var", "While"}

RECURSIVE synchronize(_)
\* Parser::synchronize: the token stream as it is left
synchronize(p) ==
    IF p.tokens = << >> THEN p
    ELSE IF Head(p.tokens).token_type = "Semicolon" THEN advance(p)
    ELSE IF advance(p).tokens = << >> THEN advance(p)
    ELSE IF peek_is(advance(p), StatementStarts) THEN advance(p)
    ELSE synchronize(advance(p))

\* a loop of Parser::parse that, when a declaration fails, tries it again
parse_turn_retrying(statements, p) ==
    IF p.tokens = << >> \/ peek_is(p, {"Eof"})
    THEN [returned |-> TRUE, r |-> Ok(statements, p)]
    ELSE
    LET with_declaration(d) ==
            IF ~d.ok THEN [returned |-> FALSE, r |-> Ok(statements, p)]
            ELSE [returned |-> FALSE, r |-> Ok(Append(statements, d.val), d.p)]
    IN  with_declaration(declaration(p))

\* the loop of Parser::parse, one test of its condition and one turn at a time:
\* whether parse has returned, and what it returned or holds so far
parse_turn(statements, p) ==
    IF p.tokens = << >> \/ peek_is(p, {"Eof"})
    THEN [returned |-> TRUE, r |-> Ok(statements, p)]
    ELSE
    LET with_declaration(d) ==
            IF ~d.ok THEN [returned |-> TRUE, r |-> d]
            ELSE [returned |-> FALSE, r |-> Ok(Append(statements, d.val), d.p)]
    IN  with_declaration(declaration(p))
---------------------------------------------------------------------------
(* The token kinds and their lexemes (mod token, used through TokenType). *)

\* the lexeme of a token kind that carries no payload
FixedLexeme(tt) ==
    CASE tt = "LeftParen" -> <<"(">>
      [] tt = "RightParen" -> <<")">>
      [] tt = "LeftBrace" -> <<"{">>
      [] tt = "RightBrace" -> <<"}">>
      [] tt = "Comma" -> <<",">>
      [] tt = "Dot" -> <<".">>
      [] tt = "Minus" -> <<"-">>
      [] tt = "Plus" -> <<"+">>
      [] tt = "Semicolon" -> <<";">>
      [] tt = "Slash" -> <<"/">>
      [] tt = "Star" -> <<"*">>
      [] tt = "Bang" -> <<"!">>
      [] tt = "BangEqual" -> <<"!", "=">>
      [] tt = "Equal" -> <<"=">>
      [] tt = "EqualEqual" -> <<"=", "=">>
      [] tt = "Greater" -> <<">">>
      [] tt = "GreaterEqual" -> <<">", "=">>
      [] tt = "Less" -> <<"<">>
      [] tt = "LessEqual" -> <<"<", "=">>
      [] tt = "And" -> <<"a", "n", "d">>
      [] tt = "Class" -> <<"c", "l", "a", "s", "s">>
      [] tt = "Else" -> <<"e", "l", "s", "e">>
      [] tt = "False" -> <<"f", "a", "l", "s", "e">>
      [] tt = "Fun" -> <<"f", "u", "n">>
      [] tt = "For" -> <<"f", "o", "r">>
      [] tt = "If" -> <<"i", "f">>
      [] tt = "Nil" -> <<"n", "i", "l">>
      [] tt = "Or" -> <<"o", "r">>
      [] tt = "Print" -> <<"p", "r", "i", "n", "t">>
      [] tt = "Return" -> <<"r", "e", "t", "u", "r", "n">>
      [] tt = "Super" -> <<"s", "u", "p", "e", "r">>
      [] tt = "This" -> <<"t", "h", "i", "s">>
      [] tt = "True" -> <<"t", "r", "u", "e">>
      [] tt = "Var" -> <<"v", "a", "r">>
      [] tt = "While" -> <<"w", "h", "i", "l", "e">>
      [] tt = "Eof" -> << >>

DigitChars == <<"0", "1", "2", "3", "4", "5", "6", "7", "8", "9">>

RECURSIVE NatDigits(_)
\* the decimal digits of a natural number
NatDigits(n) ==
    IF n < 10 THEN <<DigitChars[n + 1]>>
    ELSE NatDigits(n \div 10) \o <<DigitChars[(n % 10) + 1]>>

\* a number written without its fraction
FormatNumberWhole(n) == NatDigits(n \div 100)

\* write!(w, "{v}") of an f64 kept in hundredths: no fraction when integral,
\* else the shortest fraction that reads back
FormatNumber(n) ==
    LET whole == NatDigits(n \div 100)
        frac == n % 100
    IN  IF frac = 0 THEN whole
        ELSE IF frac % 10 = 0 THEN whole \o <<".", DigitChars[(frac \div 10) + 1]>>
        ELSE whole \o <<".", DigitChars[(frac \div 10) + 1], DigitChars[(frac % 10) + 1]>>

\* a token before the lexer stamps its line and universal index
Fixed(tt) == [token_type |-> tt, text |-> << >>, number |-> 0, lexeme |-> FixedLexeme(tt)]

Identifier(name) == [token_type |-> "Identifier", text |-> name, number |-> 0, lexeme |-> name]

Number(n) == [token_type |-> "Number", text |-> << >>, number |-> n, lexeme |-> FormatNumber(n)]

String(value) ==
    [token_type |-> "String", text |-> value, number |-> 0,
     lexeme |-> <<"\"">> \o value \o <<"\"">>]

\* how many tokens share a source line in the generated inputs
TokensPerLine == 3

\* the tokens of a source: lines from 1 on, universal indices first, first + 1, ...
Stamp(protos, first) ==
    [i \in 1..Len(protos) |->
        Token(protos[i].token_type, protos[i].text, protos[i].number, protos[i].lexeme,
              1 + ((i - 1) \div TokensPerLine), first + i - 1)]

---------------------------------------------------------------------------
(* The AST printer. *)


RECURSIVE print_ast(_)
RECURSIVE parenthesize_loop(_, _)

\* what a call of print_ast leaves: the text written, or a panic
Written(w) == [panic |-> FALSE, w |-> w]

Panicked == [panic |-> TRUE, w |-> << >>]

\* operands written without the space before them
parenthesize_loop_unspaced(w, exprs) ==
    IF exprs = << >> THEN Written(w)
    ELSE LET with_operand(inner) ==
                IF inner.panic THEN Panicked
                ELSE parenthesize_loop(w \o inner.w, Tail(exprs))
         IN  with_operand(print_ast(Head(exprs)))

\* the for loop of parenthesize: " " and the operand, for each operand in turn
parenthesize_loop(w, exprs) ==
    IF exprs = << >> THEN Written(w)
    ELSE LET with_operand(inner) ==
                IF inner.panic THEN Panicked
                ELSE parenthesize_loop(w \o <<" ">> \o inner.w, Tail(exprs))
         IN  with_operand(print_ast(Head(exprs)))

\* write!(w, ")") once the loop is through
parenthesize_close(body) == IF body.panic THEN Panicked ELSE Written(body.w \o <<")">>)

parenthesize(name, exprs) == parenthesize_close(parenthesize_loop(<<"(">> \o name, exprs))

print_ast(expr) ==
    CASE expr.kind = "Literal" ->
            CASE expr.token.token_type = "Number" -> Written(FormatNumber(expr.token.number))
              [] expr.token.token_type = "String" -> Written(expr.token.text)
              [] expr.token.token_type = "Identifier" -> Written(expr.token.text)
              [] expr.token.token_type = "True" -> Written(<<"t", "r", "u", "e">>)
              [] expr.token.token_type = "False" -> Written(<<"f", "a", "l", "s", "e">>)
              [] expr.token.token_type = "Nil" -> Written(<<"n", "i", "l">>)
              [] OTHER -> Panicked
      [] expr.kind = "Variable" ->
            IF expr.token.token_type = "Identifier" THEN Written(expr.token.text)
            ELSE Panicked
      [] expr.kind = "Assign" ->
            IF expr.name.token_type = "Identifier"
            THEN parenthesize(<<"=", " ">> \o expr.name.text, <<expr.value>>)
            ELSE Panicked
      [] expr.kind = "Binary" ->
            parenthesize(expr.operator.lexeme, <<expr.left, expr.right>>)
      [] expr.kind = "Grouping" ->
            parenthesize(<<"g", "r", "o", "u", "p">>, <<expr.expr>>)
      [] expr.kind = "Unary" ->
            parenthesize(expr.operator.lexeme, <<expr.expr>>)
      [] expr.kind = "Logical" ->
            parenthesize(expr.operator.lexeme, <<expr.left, expr.right>>)
      [] OTHER -> Panicked

---------------------------------------------------------------------------
(* The lexer (mod lexer): source text to tokens, as the language defines it. *)

Letters ==
    {"a", "b", "c", "d", "e", "f", "g", "h", "i", "j", "k", "l", "m", "n", "o", "p",
     "q", "r", "s", "t", "u", "v", "w", "x", "y", "z", "_"}

DigitSet == {DigitChars[d] : d \in 1..10}

DigitValue(c) == CHOOSE d \in 0..9 : DigitChars[d + 1] = c

RECURSIVE DigitsValue(_)
\* the natural number a digit string denotes
DigitsValue(ds) ==
    IF ds = << >> THEN 0
    ELSE 10 * DigitsValue(SubSeq(ds, 1, Len(ds) - 1)) + DigitValue(ds[Len(ds)])

\* the value of the number literal whole.frac, in hundredths
NumberValue(whole, frac) ==
    100 * DigitsValue(whole)
    + (IF Len(frac) >= 1 THEN 10 * DigitValue(frac[1]) ELSE 0)
    + (IF Len(frac) >= 2 THEN DigitValue(frac[2]) ELSE 0)

\* the first position from i on whose character is outside `set` (Len + 1 if none)
SkipWhile(chars, i, set) ==
    LET stops == {j \in i..Len(chars) : chars[j] \notin set} IN
    IF stops = {} THEN Len(chars) + 1
    ELSE CHOOSE j \in stops : \A k \in stops : j <= k

\* the keyword table; anything else is an identifier
KeywordType(text) ==
    LET hits == {tt \in {"And", "Class", "Else", "False", "Fun", "For", "If", "Nil", "Or",
                         "Print", "Return", "Super", "This", "True", "Var", "While"} :
                    FixedLexeme(tt) = text}
    IN  IF hits = {} THEN "Identifier" ELSE CHOOSE tt \in hits : TRUE

SingleCharType(c) ==
    CASE c = "(" -> "LeftParen" [] c = ")" -> "RightParen" [] c = "{" -> "LeftBrace"
      [] c = "}" -> "RightBrace" [] c = "," -> "Comma" [] c = "." -> "Dot"
      [] c = ";" -> "Semicolon" [] c = "+" -> "Plus" [] c = "-" -> "Minus"
      [] c = "*" -> "Star"

OneOrTwoCharType(c, two) ==
    CASE c = "!" -> IF two THEN "BangEqual" ELSE "Bang"
      [] c = "=" -> IF two THEN "EqualEqual" ELSE "Equal"
      [] c = "<" -> IF two THEN "LessEqual" ELSE "Less"
      [] c = ">" -> IF two THEN "GreaterEqual" ELSE "Greater"

RECURSIVE scan_tokens(_, _, _, _, _)
\* the tokens of chars from position i on, appended to acc; each token takes the
\* next universal index
scan_tokens(chars, i, line, idx, acc) ==
    IF i > Len(chars)
    THEN [ok |-> TRUE, tokens |-> Append(acc, Token("Eof", << >>, 0, << >>, line, idx)),
          next_index |-> idx + 1]
    ELSE
    LET c == chars[i]
        follows(d) == i < Len(chars) /\ chars[i + 1] = d
    IN  CASE c \in {"(", ")", "{", "}", ",", ".", ";", "+", "-", "*"} ->
                scan_tokens(chars, i + 1, line, idx + 1,
                            Append(acc, Token(SingleCharType(c), << >>, 0, <<c>>, line, idx)))
          [] c \in {"!", "=", "<", ">"} ->
                IF follows("=")
                THEN scan_tokens(chars, i + 2, line, idx + 1,
                                 Append(acc, Token(OneOrTwoCharType(c, TRUE), << >>, 0,
                                                   <<c, "=">>, line, idx)))
                ELSE scan_tokens(chars, i + 1, line, idx + 1,
                                 Append(acc, Token(OneOrTwoCharType(c, FALSE), << >>, 0,
                                                   <<c>>, line, idx)))
          [] c = "/" ->
                IF follows("/")
                THEN scan_tokens(chars, SkipWhile(chars, i, {ch \in {chars[j] : j \in i..Len(chars)} : ch # "\n"}),
                                 line, idx, acc)
                ELSE scan_tokens(chars, i + 1, line, idx + 1,
                                 Append(acc, Token("Slash", << >>, 0, <<c>>, line, idx)))
          [] c \in {" ", "\t", "\r"} ->
                scan_tokens(chars, SkipWhile(chars, i, {" ", "\t", "\r"}), line, idx, acc)
          [] c = "\n" -> scan_tokens(chars, i + 1, line + 1, idx, acc)
          [] c = "\"" ->
                LET closing == {j \in (i + 1)..Len(chars) : chars[j] = "\""} IN
                IF closing = {} THEN [ok |-> FALSE, tokens |-> acc, next_index |-> idx]
                ELSE
                LET j == CHOOSE j \in closing : \A k \in closing : j <= k
                    value == SubSeq(chars, i + 1, j - 1)
                    lines == Cardinality({k \in 1..Len(value) : value[k] = "\n"})
                IN  scan_tokens(chars, j + 1, line + lines, idx + 1,
                                Append(acc, Token("String", value, 0, SubSeq(chars, i, j),
                                                  line + lines, idx)))
          [] c \in DigitSet ->
                LET j == SkipWhile(chars, i, DigitSet)
                    fraction == j < Len(chars) /\ chars[j] = "." /\ chars[j + 1] \in DigitSet
                    k == IF fraction THEN SkipWhile(chars, j + 1, DigitSet) ELSE j
                    value == NumberValue(SubSeq(chars, i, j - 1),
                                         IF fraction THEN SubSeq(chars, j + 1, k - 1)
                                         ELSE << >>)
                IN  scan_tokens(chars, k, line, idx + 1,
                                Append(acc, Token("Number", << >>, value,
                                                  SubSeq(chars, i, k - 1), line, idx)))
          [] c \in Letters ->
                LET j == SkipWhile(chars, i, Letters \cup DigitSet)
                    text == SubSeq(chars, i, j - 1)
                    tt == KeywordType(text)
                IN  scan_tokens(chars, j, line, idx + 1,
                                Append(acc, Token(tt, IF tt = "Identifier" THEN text ELSE << >>,
                                                  0, text, line, idx)))
          [] OTHER -> [ok |-> FALSE, tokens |-> acc, next_index |-> idx]

\* Lexer: the tokens of a source text, ending in Eof, or a lex error
lex(chars, idx) == scan_tokens(chars, 1, 1, idx, << >>)

---------------------------------------------------------------------------
(* Inputs: bounded families of token sequences. *)

\* universal indices of a source's tokens start at 0..MaxFirstIndex
MaxFirstIndex == 1

\* statements nest to this depth in the generated programs
MaxNesting == 1

IdA == Identifier(<<"a">>)

IdB == Identifier(<<"b">>)

One == Number(100)

Semi == Fixed("Semicolon")

AssignOne == <<IdA, Fixed("Equal"), One>>

Increment == <<IdA, Fixed("Equal"), IdA, Fixed("Plus"), One>>

Condition == <<IdA, Fixed("Less"), One>>

SimpleStatements ==
    { <<Fixed("Print"), IdA, Semi>>,
      AssignOne \o <<Semi>>,
      <<Fixed("Var"), IdB, Semi>>,
      <<Fixed("Var"), IdB, Fixed("Equal"), One, Semi>>,
      <<Fixed("Return"), Semi>>,
      <<Fixed("Return"), IdA, Semi>>,
      <<Fixed("LeftBrace"), Fixed("RightBrace")>> }

\* the initializer clause of a for, with its `;`
ForInitializers ==
    { <<Semi>>, <<Fixed("Var"), IdB, Fixed("Equal"), One, Semi>>, AssignOne \o <<Semi>> }

ForConditions == { << >>, Condition }

ForIncrements == { << >>, Increment }

ForStatements(bodies) ==
    { <<Fixed("For"), Fixed("LeftParen")>> \o init \o cond \o <<Semi>> \o incr
        \o <<Fixed("RightParen")>> \o body :
        init \in ForInitializers, cond \in ForConditions, incr \in ForIncrements,
        body \in bodies }

CompoundStatements(bodies) ==
    ForStatements(bodies)
    \cup { <<Fixed("While"), Fixed("LeftParen"), IdA, Fixed("RightParen")>> \o body :
            body \in bodies }
    \cup { <<Fixed("If"), Fixed("LeftParen"), IdA, Fixed("RightParen")>> \o body :
            body \in bodies }
    \cup { <<Fixed("If"), Fixed("LeftParen"), IdA, Fixed("RightParen")>> \o body
            \o <<Fixed("Else")>> \o body : body \in bodies }
    \cup { <<Fixed("LeftBrace")>> \o body \o <<Fixed("Return"), Semi, Fixed("RightBrace")>> :
            body \in bodies }
    \cup { <<Fixed("Fun"), IdA, Fixed("LeftParen"), Fixed("RightParen"), Fixed("LeftBrace")>>
            \o body \o <<Fixed("RightBrace")>> : body \in bodies }
    \cup { <<Fixed("Fun"), IdA, Fixed("LeftParen"), IdA, Fixed("Comma"), IdB,
             Fixed("RightParen"), Fixed("LeftBrace")>>
            \o body \o <<Fixed("RightBrace")>> : body \in bodies }
    \cup { <<Fixed("Class"), IdA, Fixed("LeftBrace"), IdB, Fixed("LeftParen"),
             Fixed("RightParen"), Fixed("LeftBrace")>>
            \o body \o <<Fixed("RightBrace"), Fixed("RightBrace")>> : body \in bodies }
    \cup { <<Fixed("Class"), IdA, Fixed("Less"), IdB, Fixed("LeftBrace")>> \o body
            \o <<Fixed("RightBrace")>> : body \in {<< >>} }

RECURSIVE Statements(_)
Statements(depth) ==
    IF depth = 0 THEN SimpleStatements
    ELSE SimpleStatements \cup CompoundStatements(Statements(depth - 1))

\* w without its i-th token
Drop(w, i) == SubSeq(w, 1, i - 1) \o SubSeq(w, i + 1, Len(w))

\* statements nested up to MaxNesting; the singly nested ones also followed by a
\* bare return, and with one token lost
Programs ==
    LET whole == Statements(1) \cup { w \o <<Fixed("Return"), Semi>> : w \in Statements(1) }
    IN  Statements(MaxNesting) \cup whole
        \cup UNION { { Drop(w, i) : i \in 1..Len(w) } : w \in whole }

\* operand (operator operand)*, the operators one of each precedence level
\* (two of the term level)
ChainOperands ==
    { <<IdA>>, <<Fixed("Minus"), One>>, <<Fixed("Bang"), IdA, Fixed("Dot"), IdB>> }

ChainOperators == {"Or", "And", "EqualEqual", "Less", "Plus", "Minus", "Star"}

BinaryOperators ==
    {"Or", "And", "EqualEqual", "BangEqual", "Less", "LessEqual", "Greater",
     "GreaterEqual", "Plus", "Minus", "Star", "Slash"}

\* the longest operator chain generated
MaxOperators == 2

RECURSIVE Chains(_)
Chains(n) ==
    IF n = 0 THEN ChainOperands
    ELSE LET shorter == Chains(n - 1) IN
         shorter \cup { c \o <<Fixed(op)>> \o operand :
                          c \in shorter, op \in ChainOperators, operand \in ChainOperands }

\* every pair of binary operators between plain operands
OperatorPairs ==
    { <<IdA, Fixed(op1), IdB, Fixed(op2), One>> : op1, op2 \in BinaryOperators }

PrecedenceInputs == Chains(MaxOperators) \cup OperatorPairs

\* left-hand sides of every shape, `=`, and a right-hand side
AssignmentTargets ==
    { <<IdA>>, <<IdA, Fixed("Dot"), IdB>>, <<One>>, <<String(<<"s">>)>>, <<Fixed("True")>>,
      <<Fixed("LeftParen"), IdA, Fixed("RightParen")>>,
      <<IdA, Fixed("LeftParen"), Fixed("RightParen")>>,
      <<IdA, Fixed("LeftParen"), One, Fixed("Comma"), IdB, Fixed("RightParen")>>,
      <<IdA, Fixed("LeftParen"), Fixed("RightParen"), Fixed("Dot"), IdB>>,
      <<IdA, Fixed("Plus"), IdB>>, <<Fixed("Minus"), IdA>>, <<IdA, Fixed("Or"), IdB>>,
      <<Fixed("This")>>, <<Fixed("This"), Fixed("Dot"), IdB>>,
      <<Fixed("Super"), Fixed("Dot"), IdB>> }

AssignmentValues ==
    { <<One>>, <<IdB>>, <<IdB, Fixed("Equal"), One>>, <<One, Fixed("Equal"), IdB>>,
      <<IdB, Fixed("Dot"), IdA, Fixed("Equal"), IdA, Fixed("Plus"), One>>, << >>,
      <<Fixed("RightParen")>> }

AssignmentInputs ==
    { target \o <<Fixed("Equal")>> \o value :
        target \in AssignmentTargets, value \in AssignmentValues }

\* every token sequence up to MaxRawLen over a small alphabet
RawAlphabet ==
    { IdA, One, Number(4567), String(<<"s">>), Fixed("True"), Fixed("False"), Fixed("Nil"),
      Fixed("Minus"), Fixed("Bang"), Fixed("Plus"), Fixed("Or"), Fixed("Equal"),
      Fixed("LeftParen"), Fixed("RightParen") }

MaxRawLen == 3

RawInputs == UNION { [1..n -> RawAlphabet] : n \in 1..MaxRawLen }

\* -123 * (45.67), the expression of test_ast_printer
PrinterTestInput ==
    <<Fixed("Minus"), Number(12300), Fixed("Star"), Fixed("LeftParen"), Number(4567),
      Fixed("RightParen")>>

ExpressionInputs == AssignmentInputs \cup RawInputs \cup {PrinterTestInput}

\* parameter and argument lists of 0..MaxParams entries
MaxParams == 257

\* n entries separated by commas, with or without a comma after the last
EntryList(n, trailing) ==
    [i \in 1..(IF trailing THEN 2 * n ELSE IF n = 0 THEN 0 ELSE 2 * n - 1) |->
        IF i % 2 = 1 THEN IdA ELSE Fixed("Comma")]

ArityInputs ==
    UNION { { <<Fixed("Fun"), IdB, Fixed("LeftParen")>> \o EntryList(n, trailing)
                \o <<Fixed("RightParen"), Fixed("LeftBrace"), Fixed("RightBrace")>>,
              <<Fixed("Class"), IdB, Fixed("LeftBrace"), IdB, Fixed("LeftParen")>>
                \o EntryList(n, trailing)
                \o <<Fixed("RightParen"), Fixed("LeftBrace"), Fixed("RightBrace"),
                     Fixed("RightBrace")>>,
              <<IdB, Fixed("LeftParen")>> \o EntryList(n, trailing)
                \o <<Fixed("RightParen"), Semi>> } :
            n \in 0..MaxParams, trailing \in BOOLEAN }

\* declarations that parse, and ones that fail where they stand: a missing `;`,
\* an operator without its right operand, a stray `)`
ClosedDeclarations ==
    { <<Fixed("Print"), IdA, Semi>>,
      <<Fixed("Var"), IdB, Semi>>,
      AssignOne \o <<Semi>>,
      <<Fixed("LeftBrace"), Fixed("Print"), IdA, Semi, Fixed("RightBrace")>>,
      <<Fixed("Fun"), IdA, Fixed("LeftParen"), Fixed("RightParen"), Fixed("LeftBrace"),
        Fixed("RightBrace")>>,
      <<Fixed("Class"), IdA, Fixed("LeftBrace"), IdB, Fixed("LeftParen"),
        Fixed("RightParen"), Fixed("LeftBrace"), Fixed("RightBrace"), Fixed("RightBrace")>>,
      <<IdA, Fixed("LeftParen"), Fixed("RightParen"), Fixed("Dot"), IdB, Semi>>,
      <<Fixed("Print"), IdA>>,
      <<IdA, Fixed("Plus")>>,
      <<Fixed("RightParen")>> }

\* a block, a class body and a parameter list that never close
OpenDeclarations ==
    { <<Fixed("LeftBrace"), Fixed("Print"), IdA, Semi>>,
      <<Fixed("Class"), IdA, Fixed("LeftBrace"), IdB, Fixed("LeftParen"),
        Fixed("RightParen"), Fixed("LeftBrace"), Fixed("RightBrace")>>,
      <<Fixed("Fun"), IdA, Fixed("LeftParen"), IdB, Fixed("Comma")>> }

\* an argument list that never closes
OpenCall == <<IdA, Fixed("LeftParen"), IdB, Fixed("Comma")>>

\* the longest run of declarations generated
MaxDeclarations == 3

RECURSIVE Runs(_)
\* up to n closed declarations, one after the other
Runs(n) ==
    IF n = 0 THEN { << >> }
    ELSE LET shorter == Runs(n - 1) IN
         shorter \cup { w \o d : w \in shorter, d \in ClosedDeclarations }

\* runs of up to n declarations, at most one of them left open (the first or the
\* last; the argument list only as the last), with and without the closing Eof
\* token
RunsUpTo(n) ==
    ( { w \o d \o eof : w \in Runs(n - 1),
                        d \in ClosedDeclarations \cup OpenDeclarations \cup { OpenCall, << >> },
                        eof \in { << >>, <<Fixed("Eof")>> } }
      \cup { d \o w \o eof : d \in OpenDeclarations, w \in Runs(n - 1),
                             eof \in { << >>, <<Fixed("Eof")>> } } )
    \ { << >> }

\* token vectors for Parser::new
DeclarationRuns == RunsUpTo(MaxDeclarations)

\* the shorter of them, for parse taken turn by turn
ShortRuns == RunsUpTo(MaxDeclarations - 1)

\* the longest token vector synchronize is run on
MaxSyncLen == 3

SyncAlphabet == { Fixed(tt) : tt \in StatementStarts \cup {"Semicolon", "Eof"} } \cup { IdA }

\* every token vector up to MaxSyncLen over the statement keywords, `;`, an
\* identifier and Eof
SyncInputs == UNION { [1..n -> SyncAlphabet] : n \in 1..MaxSyncLen }

---------------------------------------------------------------------------
(* The driver: a source is lexed into tokens, handed to Parser::new, parsed. *)

Unset == [ok |-> FALSE, unset |-> TRUE]

\* the variables before the parser has run
Fresh ==
    /\ pc = "new"
    /\ result = Unset
    /\ printed = Panicked
    /\ relexed = Unset
    /\ reparsed = Unset

\* the lexer has produced the tokens of `w`, stamping universal indices from `first`
Lexed(w, first) ==
    /\ tokens = Stamp(w \o <<Fixed("Eof")>>, first)
    /\ next_index = first + Len(w) + 1

Init == (\E w \in Programs, first \in 0..MaxFirstIndex : Lexed(w, first)) /\ Fresh

InitExpr == (\E w \in ExpressionInputs, first \in 0..MaxFirstIndex : Lexed(w, first)) /\ Fresh

InitPrec == (\E w \in PrecedenceInputs, first \in 0..MaxFirstIndex : Lexed(w, first)) /\ Fresh

InitArity == (\E w \in ArityInputs : Lexed(w, 0)) /\ Fresh

\* Parser::new(tokens).parse()
Parse ==
    /\ pc = "new"
    /\ result' = parse(tokens, next_index)
    /\ next_index' = result'.p.next_index
    /\ pc' = "parsed"
    /\ UNCHANGED <<tokens, printed, relexed, reparsed>>

\* Parser::new(tokens).expression()
Expression ==
    /\ pc = "new"
    /\ result' = expression(ParserState(tokens, next_index))
    /\ next_index' = result'.p.next_index
    /\ pc' = "parsed"
    /\ UNCHANGED <<tokens, printed, relexed, reparsed>>

\* format!("{expr}"): Display for Expr calls print_ast
Display ==
    /\ pc = "parsed"
    /\ result.ok
    /\ printed' = print_ast(result.val)
    /\ pc' = "printed"
    /\ UNCHANGED <<tokens, next_index, result, relexed, reparsed>>

\* the printed text is lexed again
Lex ==
    /\ pc = "printed"
    /\ ~printed.panic
    /\ relexed' = lex(printed.w, next_index)
    /\ next_index' = relexed'.next_index
    /\ pc' = "lexed"
    /\ UNCHANGED <<tokens, result, printed, reparsed>>

\* ... and parsed again
Reparse ==
    /\ pc = "lexed"
    /\ relexed.ok
    /\ reparsed' = expression(ParserState(relexed.tokens, next_index))
    /\ next_index' = reparsed'.p.next_index
    /\ pc' = "reparsed"
    /\ UNCHANGED <<tokens, result, printed, relexed>>

Next == Parse

NextExpr == Expression \/ Display \/ Lex \/ Reparse

Spec == Init /\ [][Next]_vars

SpecArity == InitArity /\ [][Next]_vars

SpecPrec == InitPrec /\ [][Expression]_vars

SpecExpr == InitExpr /\ [][NextExpr]_vars
\* Parser::new is handed a vector of tokens, with or without a closing Eof
InitRuns ==
    /\ \E w \in DeclarationRuns : tokens = Stamp(w, 0) /\ next_index = Len(w)
    /\ Fresh

SpecRuns == InitRuns /\ [][Next]_vars

InitTurns ==
    /\ \E w \in ShortRuns : tokens = Stamp(w, 0) /\ next_index = Len(w)
    /\ Fresh

InitSync ==
    /\ \E w \in SyncInputs : tokens = Stamp(w, 0) /\ next_index = Len(w)
    /\ Fresh

\* self.synchronize() with the first `start` tokens already taken from the stream
Synchronize ==
    /\ pc = "new"
    /\ \E start \in 0..Len(tokens) :
        LET from == ParserState(SubSeq(tokens, start + 1, Len(tokens)), next_index) IN
        result' = [ok |-> TRUE, from |-> from, p |-> synchronize(from)]
    /\ pc' = "synchronized"
    /\ UNCHANGED <<tokens, next_index, printed, relexed, reparsed>>

SpecSync == InitSync /\ [][Synchronize]_vars

\* Parser::new(tokens).parse() up to its loop: let mut statements = Vec::new()
Begin ==
    /\ pc = "new"
    /\ result' = Ok(<< >>, ParserState(tokens, next_index))
    /\ pc' = "parsing"
    /\ UNCHANGED <<tokens, next_index, printed, relexed, reparsed>>

\* one test of the loop condition of Parser::parse and, if it holds, one turn
Turn ==
    /\ pc = "parsing"
    /\ result' = parse_turn(result.val, result.p).r
    /\ pc' = IF parse_turn(result.val, result.p).returned THEN "parsed" ELSE "parsing"
    /\ next_index' = result'.p.next_index
    /\ UNCHANGED <<tokens, printed, relexed, reparsed>>

NextTurns == Begin \/ Turn

\* parse runs on one thread and nothing suspends it: a turn that can be taken is taken
SpecTurns == InitTurns /\ [][NextTurns]_vars /\ WF_vars(NextTurns)


---------------------------------------------------------------------------
(* The syntax trees of mod parser (Stmt, FunctionStatement, Expr), walked. *)

RECURSIVE ExprTokens(_)
RECURSIVE ExprsTokens(_)
RECURSIVE StmtTokens(_)
RECURSIVE StmtsTokens(_)
RECURSIVE StmtNodes(_)
RECURSIVE StmtsNodes(_)

\* the token occurrences of an Expr, in source order
ExprTokens(e) ==
    CASE e.kind \in {"Literal", "Variable"} -> <<e.token>>
      [] e.kind = "Assign" -> <<e.name>> \o ExprTokens(e.value)
      [] e.kind = "Unary" -> <<e.operator>> \o ExprTokens(e.expr)
      [] e.kind \in {"Binary", "Logical"} ->
            ExprTokens(e.left) \o <<e.operator>> \o ExprTokens(e.right)
      [] e.kind = "Grouping" -> ExprTokens(e.expr)
      [] e.kind = "Call" ->
            ExprTokens(e.callee) \o ExprsTokens(e.arguments) \o <<e.closing_parenthesis>>
      [] e.kind = "Get" -> ExprTokens(e.object) \o <<e.name>>
      [] e.kind = "Set" -> ExprTokens(e.object) \o <<e.name>> \o ExprTokens(e.value)
      [] e.kind = "This" -> <<e.keyword>>
      [] e.kind = "Super" -> <<e.keyword, e.method>>

ExprsTokens(es) ==
    IF es = << >> THEN << >> ELSE ExprTokens(Head(es)) \o ExprsTokens(Tail(es))

\* the token occurrences of a Stmt
StmtTokens(s) ==
    CASE s.kind \in {"Expr", "Print"} -> ExprTokens(s.expr)
      [] s.kind = "Var" ->
            <<s.name>> \o (IF IsSome(s.initializer) THEN ExprTokens(Unwrap(s.initializer))
                           ELSE << >>)
      [] s.kind = "Block" -> StmtsTokens(s.stmts)
      [] s.kind = "If" ->
            ExprTokens(s.condition) \o StmtTokens(s.then_branch)
            \o (IF IsSome(s.else_branch) THEN StmtTokens(Unwrap(s.else_branch)) ELSE << >>)
      [] s.kind = "While" -> ExprTokens(s.condition) \o StmtTokens(s.body)
      [] s.kind = "Function" -> <<s.name>> \o s.params \o StmtsTokens(s.body)
      [] s.kind = "Return" -> <<s.keyword>> \o ExprTokens(s.value)
      [] s.kind = "Class" -> <<s.name>> \o s.superclass \o StmtsTokens(s.methods)

StmtsTokens(ss) ==
    IF ss = << >> THEN << >> ELSE StmtTokens(Head(ss)) \o StmtsTokens(Tail(ss))

\* a Stmt and the statements nested in it
StmtNodes(s) ==
    {s} \cup
    CASE s.kind = "Block" -> StmtsNodes(s.stmts)
      [] s.kind = "If" ->
            StmtNodes(s.then_branch)
            \cup (IF IsSome(s.else_branch) THEN StmtNodes(Unwrap(s.else_branch)) ELSE {})
      [] s.kind = "While" -> StmtNodes(s.body)
      [] s.kind = "Function" -> StmtsNodes(s.body)
      [] s.kind = "Class" -> StmtsNodes(s.methods)
      [] OTHER -> {}

StmtsNodes(ss) == UNION { StmtNodes(ss[i]) : i \in 1..Len(ss) }

---------------------------------------------------------------------------
(* What the claims speak of, read off the input. *)

\* the counter of next_universal_index when Parser::new was called: the lexer
\* gave the last token (Eof) the value before it
InitialCounter == tokens[Len(tokens)].universal_index + 1

\* the parser as Parser::new leaves it
Start == ParserState(tokens, InitialCounter)

InputIds == { tokens[i].universal_index : i \in 1..Len(tokens) }

InputTokens == { tokens[i] : i \in 1..Len(tokens) }

TokenTypes(ts) == [i \in 1..Len(ts) |-> ts[i].token_type]

\* the program begins `for (`
BeginsFor == Len(tokens) >= 3 /\ tokens[1].token_type = "For" /\ tokens[2].token_type = "LeftParen"

\* the clauses and the body of the `for` the program begins with, parsed one
\* after the other from the token after `for (`
ForParts ==
    LET p0 == advance(advance(Start))
        init == IF peek_is(p0, {"Semicolon"}) THEN Ok(None, advance(p0))
                ELSE IF peek_is(p0, {"Var"}) THEN optional(var_declaration(advance(p0)))
                ELSE optional(expression_statement(p0))
        cond == IF peek_is(init.p, {"Semicolon"}) THEN Ok(None, init.p)
                ELSE optional(expression(init.p))
        after == advance(cond.p)
        incr == IF peek_is(after, {"RightParen"}) THEN Ok(None, after)
                ELSE optional(expression(after))
    IN  [init |-> init, cond |-> cond, incr |-> incr, body |-> statement(advance(incr.p))]

\* body, or Block[body, Expr(incr)] when the increment is present
ForBody(parts) ==
    IF IsSome(parts.incr.val)
    THEN [kind |-> "Block",
          stmts |-> <<parts.body.val, [kind |-> "Expr", expr |-> Unwrap(parts.incr.val)]>>]
    ELSE parts.body.val

\* `loop` is While{condition, body'} for the parts: the parsed condition, or a
\* synthesized `true` of line 1 whose index no other token of `whole` has
IsForLoop(loop, parts, whole) ==
    /\ loop.kind = "While"
    /\ loop.body = ForBody(parts)
    /\ IF IsSome(parts.cond.val) THEN loop.condition = Unwrap(parts.cond.val)
       ELSE /\ loop.condition.kind = "Literal"
            /\ loop.condition.token.token_type = "True"
            /\ loop.condition.token.line = 1
            /\ loop.condition.token.universal_index \notin InputIds
            /\ Cardinality({ i \in 1..Len(StmtTokens(whole)) :
                    StmtTokens(whole)[i].universal_index
                        = loop.condition.token.universal_index }) = 1

\* C1: a `for` without an initializer clause still comes back as a While
\* statement: its condition is the parsed condition (a synthesized `true` when
\* omitted), its body the parsed body (Block[body, Expr(incr)] with an
\* increment); only the outer Block is left out.
C1_ForWithoutInitializerIsWhile ==
    (pc = "parsed" /\ BeginsFor /\ tokens[3].token_type = "Semicolon" /\ result.ok)
        => IsForLoop(result.val[1], ForParts, result.val[1])

\* C2: a `for` with an initializer clause comes back as
\* Block[init, While{condition, body'}]: condition is the parsed condition, or a
\* synthesized True literal of line 1 with a fresh universal index; body' is the
\* parsed body, or Block[body, Expr(incr)] when an increment is present.
C2_ForWithInitializerIsBlockOfInitAndWhile ==
    (pc = "parsed" /\ BeginsFor /\ tokens[3].token_type # "Semicolon" /\ result.ok)
        => /\ result.val[1].kind = "Block"
           /\ Len(result.val[1].stmts) = 2
           /\ result.val[1].stmts[1] = Unwrap(ForParts.init.val)
           /\ IsForLoop(result.val[1].stmts[2], ForParts, result.val[1])

\* a `for` with an initializer, without a condition and with an increment was parsed
C2_Witness ==
    /\ pc = "parsed" /\ BeginsFor /\ tokens[3].token_type # "Semicolon" /\ result.ok
    /\ ~IsSome(ForParts.cond.val) /\ IsSome(ForParts.incr.val)
    /\ result.val[1].stmts[2].condition.token.token_type = "True"

\* the entries of the one parameter or argument list of the input
Entries ==
    Cardinality({ i \in 1..Len(tokens) :
        tokens[i].token_type = "Identifier" /\ tokens[i].text = <<"a">> })

\* a comma right before the closing parenthesis
TrailingComma ==
    \E i \in 1..(Len(tokens) - 1) :
        tokens[i].token_type = "Comma" /\ tokens[i + 1].token_type = "RightParen"

\* the parsed list of a function declaration, a method or a call statement
ListOf(stmt) ==
    CASE stmt.kind = "Function" -> stmt.params
      [] stmt.kind = "Class" -> stmt.methods[1].params
      [] stmt.kind = "Expr" -> stmt.expr.arguments

\* C3: a parameter list (function, method) or an argument list (call) with more
\* than 255 entries is rejected with ExceededArgumentsLimit; one of at most 255
\* comma-separated entries, 255 included, is accepted with all its entries.
C3_ArityLimit ==
    pc = "parsed" =>
        /\ Entries > 255
            => ~result.ok /\ result.err.kind = Kind("ExceededArgumentsLimit")
        /\ (Entries <= 255 /\ ~TrailingComma)
            => result.ok /\ Len(ListOf(result.val[1])) = Entries

\* a list of exactly 255 entries was accepted, for a function and for a call
C3_Witness ==
    /\ pc = "parsed" /\ Entries = 255 /\ ~TrailingComma /\ result.ok
    /\ result.val[1].kind \in {"Function", "Expr"}
    /\ Len(ListOf(result.val[1])) = 255

\* C4: when the expression parsed at the logic_or level is followed by `=` and
\* the right-hand side parses (as an assignment, recursively), the result is
\* Assign{name, value} for a Variable on the left, Set{object, name, value} for
\* a Get, and for every other left side an InvalidAssignmentTarget error whose
\* token is that `=`; `a = b = 1` is Assign{a, Assign{b, 1}}.
C4_Assignment ==
    pc # "new" =>
        /\ (or(Start).ok /\ peek_is(or(Start).p, {"Equal"})
                /\ assignment(advance(or(Start).p)).ok)
            => LET left == or(Start).val
                   equals == Head(or(Start).p.tokens)
                   value == assignment(advance(or(Start).p)).val
               IN  CASE left.kind = "Variable" ->
                            /\ result.ok
                            /\ result.val = [kind |-> "Assign", name |-> left.token,
                                             value |-> value]
                     [] left.kind = "Get" ->
                            /\ result.ok
                            /\ result.val = [kind |-> "Set", object |-> left.object,
                                             name |-> left.name, value |-> value]
                     [] OTHER ->
                            /\ ~result.ok
                            /\ result.err.kind = Kind("InvalidAssignmentTarget")
                            /\ result.err.token = Some(equals)
        /\ TokenTypes(tokens) = <<"Identifier", "Equal", "Identifier", "Equal", "Number", "Eof">>
            => /\ result.ok
               /\ result.val =
                    [kind |-> "Assign", name |-> tokens[1],
                     value |-> [kind |-> "Assign", name |-> tokens[3],
                                value |-> [kind |-> "Literal", token |-> tokens[5]]]]

\* an assignment to a call was rejected at its `=`
C4_Witness ==
    /\ pc = "parsed" /\ ~result.ok
    /\ result.err.kind = Kind("InvalidAssignmentTarget")
    /\ or(Start).ok /\ or(Start).val.kind = "Call"
    /\ result.err.token = Some(Head(or(Start).p.tokens))

---------------------------------------------------------------------------
(* Precedence. *)

PrefixOperators == {"Bang", "Minus"}

Primaries == {"Identifier", "Number", "String", "True", "False", "Nil"}

RECURSIVE ChainFrom(_, _, _)
\* ts from position i on is the rest of a parenthesis-free chain of operands
\* joined by binary operators; `after` says an operand has just ended
ChainFrom(ts, i, after) ==
    IF ts[i].token_type = "Eof" THEN after /\ i = Len(ts)
    ELSE IF ~after
    THEN \/ ts[i].token_type \in PrefixOperators /\ ChainFrom(ts, i + 1, FALSE)
         \/ ts[i].token_type \in Primaries /\ ChainFrom(ts, i + 1, TRUE)
    ELSE \/ /\ ts[i].token_type = "Dot"
            /\ ts[i + 1].token_type = "Identifier"
            /\ ChainFrom(ts, i + 2, TRUE)
         \/ ts[i].token_type \in BinaryOperators /\ ChainFrom(ts, i + 1, FALSE)

IsOperatorChain(ts) == ChainFrom(ts, 1, FALSE)

\* the precedence table, lowest first
LevelOf(tt) ==
    CASE tt = "Or" -> 1
      [] tt = "And" -> 2
      [] tt \in {"EqualEqual", "BangEqual"} -> 3
      [] tt \in {"Less", "LessEqual", "Greater", "GreaterEqual"} -> 4
      [] tt \in {"Plus", "Minus"} -> 5
      [] tt \in {"Star", "Slash"} -> 6

\* the level of the operator at the root of a tree: prefix 7, postfix 8, none 9
NodeLevel(e) ==
    CASE e.kind \in {"Binary", "Logical"} -> LevelOf(e.operator.token_type)
      [] e.kind = "Unary" -> 7
      [] e.kind \in {"Get", "Call"} -> 8
      [] OTHER -> 9

RECURSIVE Grouped(_)
\* every operator has only operators of its level or higher to its left and
\* only higher ones to its right, below it
Grouped(e) ==
    CASE e.kind \in {"Binary", "Logical"} ->
            /\ e.operator.token_type \in BinaryOperators
            /\ (e.kind = "Logical") <=> (e.operator.token_type \in {"Or", "And"})
            /\ NodeLevel(e.left) >= NodeLevel(e)
            /\ NodeLevel(e.right) > NodeLevel(e)
            /\ Grouped(e.left)
            /\ Grouped(e.right)
      [] e.kind = "Unary" ->
            /\ e.operator.token_type \in PrefixOperators
            /\ NodeLevel(e.expr) >= 7
            /\ Grouped(e.expr)
      [] e.kind = "Get" -> NodeLevel(e.object) >= 8 /\ Grouped(e.object)
      [] e.kind \in {"Literal", "Variable"} -> TRUE
      [] OTHER -> FALSE

\* a token the tree keeps: the `.` of a property access is dropped
Kept(token) == token.token_type # "Dot"

\* C5: a parenthesis-free chain of operands joined by operators parses to a
\* tree over exactly its tokens (but the dots), in their order, grouped by the precedence
\* table: a higher operator lies below an adjacent lower one and operators of
\* one binary or logical level associate to the left (a + b * 1 is
\* Binary{a, +, Binary{b, *, 1}}, a - b - 1 is Binary{Binary{a, -, b}, -, 1}).
C5_Precedence ==
    (pc = "parsed" /\ IsOperatorChain(tokens)) =>
        /\ result.ok
        /\ ExprTokens(result.val) = SelectSeq(SubSeq(tokens, 1, Len(tokens) - 1), Kept)
        /\ Grouped(result.val)
        /\ TokenTypes(tokens) = <<"Identifier", "Plus", "Identifier", "Star", "Number", "Eof">>
            => result.val =
                [kind |-> "Binary", left |-> [kind |-> "Variable", token |-> tokens[1]],
                 operator |-> tokens[2],
                 right |-> [kind |-> "Binary",
                            left |-> [kind |-> "Variable", token |-> tokens[3]],
                            operator |-> tokens[4],
                            right |-> [kind |-> "Literal", token |-> tokens[5]]]]
        /\ TokenTypes(tokens) = <<"Identifier", "Minus", "Identifier", "Minus", "Number", "Eof">>
            => result.val =
                [kind |-> "Binary",
                 left |-> [kind |-> "Binary",
                           left |-> [kind |-> "Variable", token |-> tokens[1]],
                           operator |-> tokens[2],
                           right |-> [kind |-> "Variable", token |-> tokens[3]]],
                 operator |-> tokens[4],
                 right |-> [kind |-> "Literal", token |-> tokens[5]]]

\* a chain with a lower operator after a higher one and a prefix operand was parsed
C5_Witness ==
    /\ pc = "parsed" /\ IsOperatorChain(tokens) /\ result.ok
    /\ Len(tokens) >= 8
    /\ result.val.kind = "Logical"
    /\ result.val.left.kind = "Binary"
    /\ result.val.right.kind = "Unary"

\* C6: every Error the parser returns carries Some(offending token), for every
\* input that ends in Eof.
C6_EveryErrorNamesItsToken ==
    (pc = "parsed" /\ ~result.ok) => IsSome(result.err.token)

---------------------------------------------------------------------------
(* Return statements and token ids. *)

\* where an input token stands in the input: the lexer numbers them in order
PositionOf(token) == token.universal_index - tokens[1].universal_index + 1

\* the Return statements of the parsed program
ReturnNodes == { s \in StmtsNodes(result.val) : s.kind = "Return" }

\* the nil literal return_statement puts in for a bare `return;`
IsNilFor(value, keyword) ==
    /\ value.kind = "Literal"
    /\ value.token.token_type = "Nil"
    /\ value.token.line = keyword.line
    /\ value.token.universal_index # keyword.universal_index
    /\ value.token.universal_index \notin InputIds

\* the value and the parser after it, for the `return` the program begins with
FirstReturnValue ==
    IF tokens[2].token_type = "Semicolon"
    THEN Ok([kind |-> "Literal",
             token |-> Token("Nil", << >>, 0, tokens[1].lexeme, tokens[1].line,
                             InitialCounter)],
            bump_index(advance(Start)))
    ELSE expression(advance(Start))

\* C7: a Return statement whose keyword is directly followed by `;` has for
\* value a Nil literal with the keyword's line and a fresh universal index,
\* different from the keyword's; any other has the expression parsed after the
\* keyword; the `;` after the value is consumed, and without it the error is
\* ExpectedSemicolon.
C7_ReturnStatement ==
    pc = "parsed" =>
        /\ result.ok =>
            \A r \in ReturnNodes :
                /\ r.keyword.token_type = "Return"
                /\ tokens[PositionOf(r.keyword)] = r.keyword
                /\ IF tokens[PositionOf(r.keyword) + 1].token_type = "Semicolon"
                   THEN IsNilFor(r.value, r.keyword)
                   ELSE LET e == expression(ParserState(
                                    SubSeq(tokens, PositionOf(r.keyword) + 1, Len(tokens)),
                                    InitialCounter))
                        IN  e.ok /\ r.value = e.val /\ peek_is(e.p, {"Semicolon"})
        /\ (tokens[1].token_type = "Return" /\ FirstReturnValue.ok) =>
            IF peek_is(FirstReturnValue.p, {"Semicolon"})
            THEN result = parse_loop(<<[kind |-> "Return", keyword |-> tokens[1],
                                        value |-> FirstReturnValue.val]>>,
                                     advance(FirstReturnValue.p))
            ELSE /\ ~result.ok
                 /\ result.err.kind = Kind("ExpectedSemicolon")
                 /\ result.err.token = peek(FirstReturnValue.p)

\* a bare `return;` below the first line was parsed next to a `return` with a value
C7_Witness ==
    /\ pc = "parsed" /\ result.ok
    /\ \E r \in ReturnNodes :
            /\ r.keyword.line > 1
            /\ tokens[PositionOf(r.keyword) + 1].token_type = "Semicolon"
            /\ IsNilFor(r.value, r.keyword)
    /\ \E r \in ReturnNodes : r.value.kind = "Variable"

\* C8: with pairwise distinct universal indices in the input, no two token
\* occurrences of the parsed program share a universal index; a token of the
\* tree is an input token or a synthesized one whose index was taken from
\* next_universal_index.
C8_TokenIdsUnique ==
    (pc = "parsed" /\ result.ok /\ Cardinality(InputIds) = Len(tokens)) =>
        LET occurrences == StmtsTokens(result.val) IN
        /\ \A i, j \in 1..Len(occurrences) :
                i # j => occurrences[i].universal_index # occurrences[j].universal_index
        /\ \A i \in 1..Len(occurrences) :
                \/ occurrences[i] \in InputTokens
                \/ occurrences[i].universal_index \in InitialCounter..(next_index - 1)

\* a program with two synthesized tokens (a `true` and a `nil`) was parsed
C8_Witness ==
    /\ pc = "parsed" /\ result.ok /\ Cardinality(InputIds) = Len(tokens)
    /\ Cardinality({ i \in 1..Len(StmtsTokens(result.val)) :
            StmtsTokens(result.val)[i] \notin InputTokens }) >= 2
    /\ \E i \in 1..Len(StmtsTokens(result.val)) :
            StmtsTokens(result.val)[i].token_type = "True"
            /\ StmtsTokens(result.val)[i] \notin InputTokens

---------------------------------------------------------------------------
(* The printer and the round trip. *)

RECURSIVE Printable(_)
\* a tree built from Binary, Logical, Unary and Grouping nodes over number,
\* string, true, false and nil literals
Printable(e) ==
    CASE e.kind = "Literal" -> e.token.token_type \in LiteralTypes
      [] e.kind \in {"Binary", "Logical"} -> Printable(e.left) /\ Printable(e.right)
      [] e.kind \in {"Unary", "Grouping"} -> Printable(e.expr)
      [] OTHER -> FALSE

RECURSIVE Prefix(_)
\* the fully parenthesized prefix form of a Printable tree
Prefix(e) ==
    CASE e.kind = "Literal" ->
            CASE e.token.token_type = "Number" -> FormatNumber(e.token.number)
              [] e.token.token_type = "String" -> e.token.text
              [] OTHER -> FixedLexeme(e.token.token_type)
      [] e.kind \in {"Binary", "Logical"} ->
            <<"(">> \o e.operator.lexeme \o <<" ">> \o Prefix(e.left) \o <<" ">>
                \o Prefix(e.right) \o <<")">>
      [] e.kind = "Unary" ->
            <<"(">> \o e.operator.lexeme \o <<" ">> \o Prefix(e.expr) \o <<")">>
      [] e.kind = "Grouping" ->
            <<"(", "g", "r", "o", "u", "p", " ">> \o Prefix(e.expr) \o <<")">>

\* (* (- 123) (group 45.67))
PrinterTestExpected ==
    <<"(", "*", " ", "(", "-", " ", "1", "2", "3", ")", " ", "(", "g", "r", "o", "u", "p",
      " ", "4", "5", ".", "6", "7", ")", ")">>

\* the tokens of `w`, whatever their lines and indices
IsInput(w) ==
    /\ Len(tokens) = Len(w) + 1
    /\ \A i \in 1..Len(w) :
            /\ tokens[i].token_type = w[i].token_type
            /\ tokens[i].text = w[i].text
            /\ tokens[i].number = w[i].number

\* C9: print_ast writes a tree of Binary, Logical, Unary and Grouping nodes
\* over number, string, true, false and nil literals in fully parenthesized
\* prefix form, operands left to right after the operator's lexeme, separated
\* by single spaces; -123 * (45.67) prints (* (- 123) (group 45.67)).
C9_PrefixForm ==
    (pc \in {"printed", "lexed", "reparsed"} /\ Printable(result.val)) =>
        /\ ~printed.panic
        /\ printed.w = Prefix(result.val)
        /\ IsInput(PrinterTestInput) => printed.w = PrinterTestExpected

\* the expression of test_ast_printer was printed
C9_Witness ==
    /\ pc = "printed" /\ IsInput(PrinterTestInput) /\ Printable(result.val)
    /\ printed.w = PrinterTestExpected

\* a token without its line and universal index
Bare(token) == [token_type |-> token.token_type, text |-> token.text, number |-> token.number]

RECURSIVE Shape(_)
RECURSIVE Shapes(_)
\* an Expr without the lines, universal indices and lexemes of its tokens
Shape(e) ==
    CASE e.kind \in {"Literal", "Variable"} -> <<e.kind, Bare(e.token)>>
      [] e.kind = "Assign" -> <<e.kind, Bare(e.name), Shape(e.value)>>
      [] e.kind = "Unary" -> <<e.kind, Bare(e.operator), Shape(e.expr)>>
      [] e.kind \in {"Binary", "Logical"} ->
            <<e.kind, Shape(e.left), Bare(e.operator), Shape(e.right)>>
      [] e.kind = "Grouping" -> <<e.kind, Shape(e.expr)>>
      [] e.kind = "Call" -> <<e.kind, Shape(e.callee), Shapes(e.arguments)>>
      [] e.kind = "Get" -> <<e.kind, Shape(e.object), Bare(e.name)>>
      [] e.kind = "Set" -> <<e.kind, Shape(e.object), Bare(e.name), Shape(e.value)>>
      [] e.kind = "This" -> <<e.kind>>
      [] e.kind = "Super" -> <<e.kind, Bare(e.method)>>

Shapes(es) == [i \in 1..Len(es) |-> Shape(es[i])]

\* the printed text was lexed and parsed back, whole, into the same tree
RoundTrips ==
    /\ reparsed.ok
    /\ TokenTypes(reparsed.p.tokens) = <<"Eof">>
    /\ Shape(reparsed.val) = Shape(result.val)

\* a lone variable, or a lone number, true, false or nil literal
IsAtom(e) ==
    \/ e.kind = "Variable"
    \/ e.kind = "Literal" /\ e.token.token_type \in {"Number", "True", "False", "Nil"}

\* C10 as claimed: every expression the parser produces prints to a text that
\* parses back to a structurally identical tree.
C10_RoundTripOfEveryExpression ==
    /\ pc = "printed" => ~printed.panic
    /\ pc = "lexed" => relexed.ok
    /\ pc = "reparsed" => RoundTrips

\* C10: an expression that is a lone variable or a lone number, true, false or
\* nil literal prints to a text that lexes and parses back to a structurally
\* identical tree; no other expression does.
C10_RoundTripOfAtoms ==
    /\ (pc = "printed" /\ IsAtom(result.val)) => ~printed.panic
    /\ (pc = "lexed" /\ IsAtom(result.val)) => relexed.ok
    /\ pc = "reparsed" => (RoundTrips <=> IsAtom(result.val))

\* a fractional number literal went round
C10_Witness ==
    /\ pc = "reparsed" /\ IsAtom(result.val)
    /\ result.val.token.token_type = "Number"
    /\ result.val.token.number = 4567
    /\ RoundTrips

---------------------------------------------------------------------------
(* Parser::parse and its errors. *)

RECURSIVE DeclarationsFrom(_)
\* what Parser::declaration returns call by call, each call starting where the one
\* before it stopped, from p up to the first Eof token, the end of the tokens or
\* the first call that fails
DeclarationsFrom(p) ==
    IF p.tokens = << >> \/ Head(p.tokens).token_type = "Eof" THEN << >>
    ELSE LET then(d) == <<d>> \o (IF d.ok THEN DeclarationsFrom(d.p) ELSE << >>)
         IN  then(declaration(p))

\* the universal indices of the input tokens a statement holds
InputIdsOf(stmt) ==
    { StmtTokens(stmt)[i].universal_index : i \in 1..Len(StmtTokens(stmt)) } \cap InputIds

\* C11: Parser::parse halts at the first error: it returns Err with the error of
\* the first declaration that fails, with no token consumed after that declaration
\* (no further declaration, no synchronize) and without the statements parsed
\* before it; it returns Ok(statements) only when every declaration up to the first
\* Eof parsed, and then the statements are those declarations in source order.
C11_ParseHaltsAtFirstError ==
    pc = "parsed" =>
        LET calls == DeclarationsFrom(Start)
            failed == { i \in 1..Len(calls) : ~calls[i].ok }
        IN  /\ result.ok <=> failed = {}
            /\ failed # {} =>
                LET first == CHOOSE i \in failed : \A j \in failed : i <= j IN
                /\ result.err = calls[first].err
                /\ result.p = calls[first].p
                /\ "val" \notin DOMAIN result
            /\ failed = {} =>
                /\ result.val = [i \in 1..Len(calls) |-> calls[i].val]
                /\ result.p.tokens = << >> \/ Head(result.p.tokens).token_type = "Eof"
                /\ \A i, j \in 1..Len(result.val) :
                        i < j => \A a \in InputIdsOf(result.val[i]) :
                                    \A b \in InputIdsOf(result.val[j]) : a < b

\* a declaration fails after another one has parsed and with more to come
C11_Witness ==
    /\ pc = "parsed"
    /\ ~result.ok
    /\ Len(DeclarationsFrom(Start)) = 2
    /\ Len(result.p.tokens) > 1
    /\ result.p.tokens[1].token_type = "Print"

\* the least member of a nonempty set of numbers
Least(set) == CHOOSE i \in set : \A j \in set : i <= j

\* C12: Parser::synchronize, started at any position of any token sequence, leaves
\* the stream just after the first `;` among the remaining tokens or just before
\* the first statement-starting keyword among them, whichever comes first, or at
\* the end of input when there is neither; no token after that point and no
\* statement-starting keyword is discarded.
C12_SynchronizeStopsAtStatementBoundary ==
    pc = "synchronized" =>
        LET rest == result.from.tokens
            semicolons == { i \in 1..Len(rest) : rest[i].token_type = "Semicolon" }
            keywords == { i \in 1..Len(rest) : rest[i].token_type \in StatementStarts }
            discarded ==
                IF semicolons \cup keywords = {} THEN Len(rest)
                ELSE IF keywords = {} THEN Least(semicolons)
                ELSE IF semicolons = {} THEN Least(keywords) - 1
                ELSE IF Least(semicolons) < Least(keywords) THEN Least(semicolons)
                ELSE Least(keywords) - 1
        IN  result.p.tokens = SubSeq(rest, discarded + 1, Len(rest))

\* the parser positioned at each place of the input
Suffixes ==
    { ParserState(SubSeq(tokens, k + 1, Len(tokens)), InitialCounter) : k \in 0..Len(tokens) }

\* r was returned with fewer tokens remaining than p has
Consumes(p, r) == Len(r.p.tokens) < Len(p.tokens)

\* r is an error, or was returned with fewer tokens remaining than p has
Progress(p, r) == ~r.ok \/ Consumes(p, r)

\* a turn of each loop, taken with the parser at any place of the input where the
\* loop's condition lets it in, consumes a token or leaves the loop with an error
LoopTurnsProgress ==
    \A p \in Suffixes :
        \* parse and block: a declaration
        /\ p.tokens # << >> => Progress(p, declaration(p))
        \* the class body: a method
        /\ (p.tokens # << >> /\ ~peek_is(p, {"RightBrace", "Eof"})) =>
                Progress(p, function("method", p))
        \* the parameter list and the argument list: the turn leaves the loop or
        \* goes round with fewer tokens
        /\ params_step(Running(<< >>, p)).done \/ Consumes(p, params_step(Running(<< >>, p)))
        /\ finish_call_step(Running(<< >>, p)).done
            \/ Consumes(p, finish_call_step(Running(<< >>, p)))
        /\ params_turns(Running(<< >>, p), Len(p.tokens) + 1).done
        /\ finish_call_turns(Running(<< >>, p), Len(p.tokens) + 1).done
        \* the postfix loop: a call or a property name
        /\ peek_is(p, {"LeftParen"}) =>
                Progress(p, finish_call([kind |-> "Variable", token |-> Head(p.tokens)],
                                        advance(p)))
        /\ peek_is(p, {"Dot"}) => Consumes(p, expect_token_type(advance(p), {"Identifier"}))
        \* the binary operator loops: the operator and its right operand
        /\ \A n \in 1..Len(Levels) :
                peek_is(p, Levels[n].operators) => Progress(p, operand_of(n, advance(p)))

\* C13: Parser::parse terminates on every finite token sequence, with or without
\* a trailing Eof: a turn of each loop (parse, block, the class body, the parameter
\* list, the argument list, the operator loops) consumes at least one token or
\* returns, so the tokens that remain decrease from turn to turn, the turns taken
\* never outnumber the tokens taken, and parse returns Ok or Err (what the loop
\* run in one go returns).
C13_ParseTerminates ==
    /\ pc = "new" => LoopTurnsProgress
    /\ pc = "parsing" =>
        /\ parse_turn(result.val, result.p).returned
            \/ Consumes(result.p, parse_turn(result.val, result.p).r)
        /\ Len(result.val) + Len(result.p.tokens) <= Len(tokens)
    /\ pc = "parsed" => result = parse(tokens, InitialCounter)
    /\ pc \in {"new", "parsing", "parsed"}

\* a block left open at Eof, and a class body left open at the end of the tokens,
\* end in an error
C13_Witness ==
    /\ pc = "parsed"
    /\ ~result.ok
    /\ \/ /\ tokens[Len(tokens)].token_type = "Eof"
          /\ tokens[1].token_type = "LeftBrace"
          /\ Len(tokens) = 5
       \/ /\ tokens[Len(tokens)].token_type # "Eof"
          /\ tokens[1].token_type = "Class"
          /\ Len(tokens) = 8

====
